---- MODULE Spec2Model ----
(***************************************************************************)
(* Model of the command line front end core/cuckoo/main.py: the group      *)
(* callback main, the createcwd command, the submit command with its two   *)
(* generators _submit_files and _submit_urls, and the long running         *)
(* commands (default standalone / distributed core, importmode, web, api). *)
(*                                                                         *)
(* One behaviour is a sequence of process invocations on the same --cwd    *)
(* path.  The working directory and the monitor binaries persist between   *)
(* invocations; everything else is per process and is reset by Invoke.     *)
(* Every call of a collaborator (cuckoocwd, submit, startup, shutdown) is  *)
(* appended to the call log "calls" of the running process.                *)
(***************************************************************************)
EXTENDS Naturals, Sequences, FiniteSets, TLC

\* Bounds of the model.
MaxRuns == 2
MaxTargets == 2
MaxPlatforms == 2

\* Python's None, as the value of an absent analysis id or error.
NoneVal == "None"

VARIABLES
    cwdState,     \* the --cwd path on disk: "Nonexistent", "Invalid", "Valid"
    cwdMissing,   \* what a valid working directory lacks: "configs", "dirs"
    monitor,      \* os.path.exists(Paths.monitor())
    run,          \* number of process invocations started so far
    prev,         \* the previous invocation: for a createcwd, its flags and outcome
    cwd0,         \* cwdState when the running process was started
    pc,           \* position of the running process
    cmd,          \* ctx.invoked_subcommand ("" when none)
    opts,         \* the flags of the invocation
    targets,      \* the submit command's raw targets
    platform,     \* the submit command's --platform tokens, in order
    cwd_set,      \* cuckoocwd.set returned without raising in this process
    settings,     \* "unset" or "built": the settings value of submit
    platforms,    \* the platform entries added to the settings helper
    idx,          \* index of the raw target the generator is at
    files,        \* _submit_files' list "files": records [path, src]
    fidx,         \* index in "files" of the next file to submit
    results,      \* the tuples yielded by the generator, as consumed
    warnings,     \* print_warning calls
    registered,   \* shutdown actions registered with register_shutdown
    shutdown_ran, \* shutdown actions that ran, in order
    calls,        \* collaborator calls of this process, in order
    exit,         \* "running", "ok" or "error"
    errmsg        \* which exit_error ended the process ("" when none)

vars == <<cwdState, cwdMissing, monitor, run, prev, cwd0, pc, cmd, opts, targets,
          platform, cwd_set, settings, platforms, idx, files, fidx, results,
          warnings, registered, shutdown_ran, calls, exit, errmsg>>

fsVars == <<cwdState, cwdMissing, monitor>>
submitVars == <<settings, platforms, idx, files, fidx, results, warnings>>
shutdownVars == <<registered, shutdown_ran>>
invVars == <<run, prev, cwd0, cmd, opts, targets, platform>>

-----------------------------------------------------------------------------
\* The file system the submit targets are resolved against.

\* A regular file, a directory holding two files, an empty directory and a
\* path that does not exist.
FilePaths == {"f", "d", "e", "missing"}
Urls == {"u1", "u2"}

PathKind(path) ==
    CASE path = "f" -> "file"
      [] path = "d" -> "dir"
      [] path = "e" -> "dir"
      [] OTHER -> "missing"

\* os.path.exists(path)
PathExists(path) == PathKind(path) # "missing"

DirFiles(path) ==
    IF path = "d" THEN <<"d/a", "d/b">> ELSE <<>>

\* cuckoo.common.storage.enumerate_files: a file gives itself, a directory
\* the files it contains, anything else nothing.
enumerate_files(path) ==
    CASE PathKind(path) = "file" -> <<path>>
      [] PathKind(path) = "dir" -> DirFiles(path)
      [] OTHER -> <<>>

\* The configuration files and the subdirectories of a working directory,
\* each taken as a whole: present or (partly) missing.
CwdItems == {"configs", "dirs"}

\* os.path.isdir(cwd_path) and cuckoocwd.exists(cwd)
CwdExists == cwdState # "Nonexistent"

\* cuckoocwd.is_valid(cwd_path)
is_valid == cwdState = "Valid"

-----------------------------------------------------------------------------
\* Helpers

Call(op, arg, src) == [op |-> op, arg |-> arg, src |-> src]

Log(op, arg, src) == calls' = Append(calls, Call(op, arg, src))

Ops == {calls[k].op : k \in DOMAIN calls}

Count(op) == Cardinality({k \in DOMAIN calls : calls[k].op = op})

\* exit_error(msg): print the message and raise SystemExit
exit_error(msg) ==
    /\ pc' = "exited"
    /\ exit' = "error"
    /\ errmsg' = msg

\* the command returns normally and the process ends with status 0
Return ==
    /\ pc' = "exited"
    /\ exit' = "ok"
    /\ errmsg' = errmsg

\* the value of prev when the previous invocation was no createcwd
NoCreatecwd(what) ==
    [cmd |-> what, repair |-> FALSE, regen |-> FALSE, created |-> FALSE,
     ok |-> FALSE]

SeqsUpTo(S, n) == UNION {[1..k -> S] : k \in 0..n}

NoFlags == [distributed |-> FALSE, regen_configs |-> FALSE,
            update_directories |-> FALSE, url |-> FALSE]

Commands == {"", "createcwd", "getmonitor", "machine", "submit", "web",
             "api", "importmode"}

\* The flag combinations each command accepts.
OptsOf(c) ==
    CASE c = "" -> {[NoFlags EXCEPT !.distributed = b] : b \in BOOLEAN}
      [] c = "createcwd" ->
            {[NoFlags EXCEPT !.regen_configs = r, !.update_directories = u] :
                r \in BOOLEAN, u \in BOOLEAN}
      [] c = "submit" -> {[NoFlags EXCEPT !.url = b] : b \in BOOLEAN}
      [] OTHER -> {NoFlags}

TargetsOf(c, o) ==
    IF c # "submit" THEN {<<>>}
    ELSE IF o.url THEN SeqsUpTo(Urls, MaxTargets)
    ELSE SeqsUpTo(FilePaths, MaxTargets)

-----------------------------------------------------------------------------
\* --platform tokens, as sequences of characters

Windows10 == <<"w", "i", "n", "d", "o", "w", "s", ",", "1", "0">>
Windows10x == <<"w", "i", "n", "d", "o", "w", "s", ",", "1", "0", ",", "x">>
Linux == <<"l", "i", "n", "u", "x">>
LinuxComma == <<"l", "i", "n", "u", "x", ",">>

PlatformTokens == {Windows10, Windows10x, Linux, LinuxComma}

\* p_v.split(","): the pieces between all the commas
RECURSIVE split_all(_)
split_all(p_v) ==
    IF \A i \in DOMAIN p_v : p_v[i] # ","
    THEN <<p_v>>
    ELSE LET i == CHOOSE i \in DOMAIN p_v :
                    p_v[i] = "," /\ \A j \in 1..(i - 1) : p_v[j] # ","
         IN <<SubSeq(p_v, 1, i - 1)>> \o split_all(SubSeq(p_v, i + 1, Len(p_v)))

\* main.py 223: p_v.split(",", 1), at most one split, at the first comma
split_platform(p_v) ==
    IF \A i \in DOMAIN p_v : p_v[i] # ","
    THEN <<p_v>>
    ELSE LET i == CHOOSE i \in DOMAIN p_v :
                    p_v[i] = "," /\ \A j \in 1..(i - 1) : p_v[j] # ","
         IN <<SubSeq(p_v, 1, i - 1), SubSeq(p_v, i + 1, Len(p_v))>>

\* main.py 225-231: the entry add_platform is called with; os_version is
\* <<v>> when given and <<>> when left out
add_platform(p_v) ==
    LET platform_version == split_platform(p_v)
    IN IF Len(platform_version) = 2
       THEN [platform |-> platform_version[1],
             os_version |-> <<platform_version[2]>>]
       ELSE [platform |-> platform_version[1], os_version |-> <<>>]

-----------------------------------------------------------------------------
Init ==
    /\ cwdState \in {"Nonexistent", "Invalid", "Valid"}
    /\ cwdMissing \in IF cwdState = "Valid" THEN SUBSET CwdItems ELSE {{}}
    /\ monitor \in BOOLEAN
    /\ run = 0
    /\ prev = NoCreatecwd("none")
    /\ cwd0 = cwdState
    /\ pc = "shell"
    /\ cmd = ""
    /\ opts = NoFlags
    /\ targets = <<>>
    /\ platform = <<>>
    /\ cwd_set = FALSE
    /\ settings = "unset"
    /\ platforms = <<>>
    /\ idx = 1
    /\ files = <<>>
    /\ fidx = 1
    /\ results = <<>>
    /\ warnings = 0
    /\ registered = <<>>
    /\ shutdown_ran = <<>>
    /\ calls = <<>>
    /\ exit = "running"
    /\ errmsg = ""

\* The process is started with command c, flags o, targets t and
\* --platform tokens p.
Start(c, o, t, p) ==
    /\ pc \in {"shell", "exited"}
    /\ run < MaxRuns
    /\ cmd' = c
    /\ opts' = o
    /\ targets' = t
    /\ platform' = p
    /\ run' = run + 1
    /\ cwd0' = cwdState
    /\ prev' = IF pc = "shell" THEN prev
               ELSE IF cmd # "createcwd" THEN NoCreatecwd("other")
               ELSE [cmd |-> cmd,
                     repair |-> opts.regen_configs \/ opts.update_directories,
                     regen |-> opts.regen_configs,
                     created |-> "cuckoocwd.create" \in Ops,
                     ok |-> exit = "ok"]
    /\ pc' = "main"
    /\ cwd_set' = FALSE
    /\ settings' = "unset"
    /\ platforms' = <<>>
    /\ idx' = 1
    /\ files' = <<>>
    /\ fidx' = 1
    /\ results' = <<>>
    /\ warnings' = 0
    /\ registered' = <<>>
    /\ shutdown_ran' = <<>>
    /\ calls' = <<>>
    /\ exit' = "running"
    /\ errmsg' = ""
    /\ UNCHANGED fsVars

\* A new process is started from the shell with a command line
\* (--platform not given).
Invoke ==
    \E c \in Commands : \E o \in OptsOf(c) : \E t \in TargetsOf(c, o) :
        Start(c, o, t, <<>>)

\* A submit process is started with --platform options and no target.
InvokePlatform ==
    \E o \in OptsOf("submit") : \E p \in SeqsUpTo(PlatformTokens, MaxPlatforms) :
        Start("submit", o, <<>>, p)

-----------------------------------------------------------------------------
\* main (the group callback)

\* main.py 21-33: the working directory must exist, except for createcwd
main_exists ==
    /\ pc = "main"
    /\ Log("cuckoocwd.exists", "cwd", 0)
    /\ IF ~CwdExists
       THEN IF cmd = "createcwd"
            THEN /\ pc' = "create_cwd"
                 /\ UNCHANGED <<exit, errmsg>>
            ELSE exit_error("CWD does not yet exist")
       ELSE /\ pc' = "main_set"
            /\ UNCHANGED <<exit, errmsg>>
    /\ UNCHANGED <<fsVars, invVars, cwd_set, submitVars, shutdownVars>>

\* AfterMain without the return of lines 49-50: main goes on to the core
\* whatever subcommand was invoked
AfterMain_no_return == "main_monitor"

\* where click goes once the group callback returns (main.py 49-52)
AfterMain ==
    CASE cmd = "" -> "main_monitor"
      [] cmd = "createcwd" -> "create_cwd"
      [] cmd = "getmonitor" -> "get_monitor"
      [] cmd = "machine" -> "machine_add"
      [] cmd = "submit" -> "submission"
      [] cmd = "web" -> "web"
      [] cmd = "api" -> "api"
      [] OTHER -> "importmode"

\* main_set with the InvalidCWDError only reported: main goes on
main_set_report_only ==
    /\ pc = "main_set"
    /\ Log("cuckoocwd.set", "cwd", 0)
    /\ \/ /\ CwdExists
          /\ cwd_set' = TRUE
       \/ /\ cwdState = "Invalid"
          /\ UNCHANGED cwd_set
    /\ pc' = AfterMain
    /\ UNCHANGED <<fsVars, invVars, submitVars, shutdownVars, exit, errmsg>>

\* main.py 35-50: cuckoocwd.set either returns or raises InvalidCWDError.
\* A valid directory is accepted.  Which of the directories that is_valid
\* rejects are also rejected by set is decided outside main.py: both
\* outcomes are kept for an invalid directory.
main_set ==
    /\ pc = "main_set"
    /\ Log("cuckoocwd.set", "cwd", 0)
    /\ \/ /\ CwdExists
          /\ cwd_set' = TRUE
          /\ pc' = AfterMain
          /\ UNCHANGED <<exit, errmsg>>
       \/ /\ cwdState = "Invalid"
          /\ exit_error("Invalid Cuckoo working directory")
          /\ UNCHANGED cwd_set
    /\ UNCHANGED <<fsVars, invVars, submitVars, shutdownVars>>

\* main_monitor without the test of lines 52-57
main_monitor_no_check ==
    /\ pc = "main_monitor"
    /\ pc' = "main_register"
    /\ UNCHANGED <<fsVars, invVars, cwd_set, submitVars, shutdownVars, calls,
                   exit, errmsg>>

\* main.py 52-57: the default command needs the monitor and stager binaries
main_monitor ==
    /\ pc = "main_monitor"
    /\ IF ~monitor
       THEN exit_error("No monitor and stager binaries")
       ELSE /\ pc' = "main_register"
            /\ UNCHANGED <<exit, errmsg>>
    /\ UNCHANGED <<fsVars, invVars, cwd_set, submitVars, shutdownVars, calls>>

\* cuckoo.common.shutdown.register_shutdown(method, order)
register_shutdown(method) ==
    /\ registered' = Append(registered, method)
    /\ Log("register_shutdown", method, 0)

\* cuckoo.common.shutdown.call_registered_shutdowns(): every registered
\* action is run, in registration order
call_registered_shutdowns ==
    /\ shutdown_ran' = shutdown_ran \o registered
    /\ Log("call_registered_shutdowns", "", 0)

\* main.py 69-72
main_register ==
    /\ pc = "main_register"
    /\ register_shutdown("_stopmsg")
    /\ pc' = "main_start"
    /\ UNCHANGED <<fsVars, invVars, cwd_set, submitVars, shutdown_ran, exit,
                   errmsg>>

\* main.py 64-67
StartFunction ==
    IF opts.distributed THEN "start_cuckoo_controller" ELSE "start_cuckoo"

\* main_start with exit_error ending the process before the "finally" runs
main_start_no_finally ==
    /\ pc = "main_start"
    /\ \/ /\ Log(StartFunction, "returned", 0)
          /\ pc' = "main_finally"
          /\ UNCHANGED <<exit, errmsg>>
       \/ /\ Log(StartFunction, "StartupError", 0)
          /\ exit_error("Failure during Cuckoo startup")
    /\ UNCHANGED <<fsVars, invVars, cwd_set, submitVars, shutdownVars>>

\* main.py 74-77: the blocking entry point returns, or raises StartupError,
\* which exit_error turns into a SystemExit that passes through "finally";
\* the call log keeps which of the two happened
main_start ==
    /\ pc = "main_start"
    /\ pc' = "main_finally"
    /\ \/ /\ Log(StartFunction, "returned", 0)
          /\ UNCHANGED <<exit, errmsg>>
       \/ /\ Log(StartFunction, "StartupError", 0)
          /\ exit' = "error"
          /\ errmsg' = "Failure during Cuckoo startup"
    /\ UNCHANGED <<fsVars, invVars, cwd_set, submitVars, shutdownVars>>

\* main.py 78-79
main_finally ==
    /\ pc = "main_finally"
    /\ call_registered_shutdowns
    /\ pc' = "exited"
    /\ exit' = IF exit = "running" THEN "ok" ELSE exit
    /\ UNCHANGED <<fsVars, invVars, cwd_set, submitVars, registered, errmsg>>

-----------------------------------------------------------------------------
\* importmode

\* main.py 368-371
importmode_register ==
    /\ pc = "importmode"
    /\ register_shutdown("_stopmsg")
    /\ pc' = "importmode_start"
    /\ UNCHANGED <<fsVars, invVars, cwd_set, submitVars, shutdown_ran, exit,
                   errmsg>>

\* importmode_start with the StartupError only caught: nothing is reported
\* and no exit_error is called
importmode_start_swallow ==
    /\ pc = "importmode_start"
    /\ pc' = "importmode_finally"
    /\ \/ Log("start_importmode", "returned", 0)
       \/ Log("start_importmode", "StartupError", 0)
    /\ UNCHANGED <<fsVars, invVars, cwd_set, submitVars, shutdownVars, exit,
                   errmsg>>

\* main.py 373-376
importmode_start ==
    /\ pc = "importmode_start"
    /\ pc' = "importmode_finally"
    /\ \/ /\ Log("start_importmode", "returned", 0)
          /\ UNCHANGED <<exit, errmsg>>
       \/ /\ Log("start_importmode", "StartupError", 0)
          /\ exit' = "error"
          /\ errmsg' = "Failure during import mode startup"
    /\ UNCHANGED <<fsVars, invVars, cwd_set, submitVars, shutdownVars>>

\* main.py 377-378
importmode_finally ==
    /\ pc = "importmode_finally"
    /\ call_registered_shutdowns
    /\ pc' = "exited"
    /\ exit' = IF exit = "running" THEN "ok" ELSE exit
    /\ UNCHANGED <<fsVars, invVars, cwd_set, submitVars, registered, errmsg>>

-----------------------------------------------------------------------------
\* web, api, getmonitor, machine add

\* main.py 260-269: init_web and start_web
web ==
    /\ pc = "web"
    /\ calls' = calls \o <<Call("init_web", "cwd", 0), Call("start_web", "", 0)>>
    /\ Return
    /\ UNCHANGED <<fsVars, invVars, cwd_set, submitVars, shutdownVars>>

\* main.py 295-304: init_api and start_api
api ==
    /\ pc = "api"
    /\ calls' = calls \o <<Call("init_api", "cwd", 0), Call("start_api", "", 0)>>
    /\ Return
    /\ UNCHANGED <<fsVars, invVars, cwd_set, submitVars, shutdownVars>>

\* main.py 127-134: the zip file is there or not
get_monitor ==
    /\ pc = "get_monitor"
    /\ \/ /\ exit_error("Zip file does not exist")
          /\ calls' = Append(calls, Call("get_monitor", "nozip", 0))
          /\ UNCHANGED monitor
       \/ /\ calls' = calls \o <<Call("get_monitor", "zip", 0),
                                 Call("unpack_monitor_components", "zip", 0)>>
          /\ monitor' = TRUE
          /\ Return
    /\ UNCHANGED <<cwdState, cwdMissing, invVars, cwd_set, submitVars,
                   shutdownVars>>

\* main.py 151-163: add_machine returns or raises StartupError
machine_add ==
    /\ pc = "machine_add"
    /\ Log("add_machine", "", 0)
    /\ \/ Return
       \/ exit_error("Failed to add machine")
    /\ UNCHANGED <<fsVars, invVars, cwd_set, submitVars, shutdownVars>>

-----------------------------------------------------------------------------
\* createcwd

\* cuckoocwd.create(path): the directory skeleton is built, the
\* configuration files are still to be written
create ==
    /\ cwdState' = "Valid"
    /\ cwdMissing' = {"configs"}

\* cuckoo.common.startup.create_configurations(): the missing configuration
\* files are written, nothing else is touched
create_configurations == cwdMissing' = cwdMissing \ {"configs"}

\* cuckoocwd.update_missing(): the missing directories are created, nothing
\* else is touched
update_missing == cwdMissing' = cwdMissing \ {"dirs"}

\* create_cwd_check with a repair request on a valid directory going on to
\* line 117
create_cwd_check_recreate ==
    /\ pc = "create_cwd"
    /\ IF CwdExists
       THEN IF ~opts.regen_configs /\ ~opts.update_directories
            THEN /\ exit_error("already exists")
                 /\ UNCHANGED calls
            ELSE /\ Log("cuckoocwd.is_valid", "cwd", 0)
                 /\ IF ~is_valid
                    THEN exit_error("not a valid Cuckoo CWD")
                    ELSE /\ pc' = "cc_create"
                         /\ UNCHANGED <<exit, errmsg>>
       ELSE /\ pc' = "cc_create"
            /\ UNCHANGED <<calls, exit, errmsg>>
    /\ UNCHANGED <<fsVars, invVars, cwd_set, submitVars, shutdownVars>>

\* create_cwd_check without the is_valid test of lines 95-99
create_cwd_check_no_valid ==
    /\ pc = "create_cwd"
    /\ IF CwdExists
       THEN IF ~opts.regen_configs /\ ~opts.update_directories
            THEN exit_error("already exists")
            ELSE /\ pc' = IF opts.regen_configs THEN "cc_regen"
                          ELSE "cc_update"
                 /\ UNCHANGED <<exit, errmsg>>
       ELSE /\ pc' = "cc_create"
            /\ UNCHANGED <<exit, errmsg>>
    /\ UNCHANGED <<fsVars, invVars, cwd_set, submitVars, shutdownVars, calls>>

\* create_cwd_check without the "already exists" test of lines 92-93: an
\* existing directory with no repair flag falls through to line 117
create_cwd_check_overwrite ==
    /\ pc = "create_cwd"
    /\ IF CwdExists /\ (opts.regen_configs \/ opts.update_directories)
       THEN /\ Log("cuckoocwd.is_valid", "cwd", 0)
            /\ IF ~is_valid
               THEN exit_error("not a valid Cuckoo CWD")
               ELSE /\ pc' = IF opts.regen_configs THEN "cc_regen"
                             ELSE "cc_update"
                    /\ UNCHANGED <<exit, errmsg>>
       ELSE /\ pc' = "cc_create"
            /\ UNCHANGED <<calls, exit, errmsg>>
    /\ UNCHANGED <<fsVars, invVars, cwd_set, submitVars, shutdownVars>>

\* main.py 90-99: an existing directory needs a repair flag and must be a
\* valid working directory
create_cwd_check ==
    /\ pc = "create_cwd"
    /\ IF CwdExists
       THEN IF ~opts.regen_configs /\ ~opts.update_directories
            THEN /\ exit_error("already exists")
                 /\ UNCHANGED calls
            ELSE /\ Log("cuckoocwd.is_valid", "cwd", 0)
                 /\ IF ~is_valid
                    THEN exit_error("not a valid Cuckoo CWD")
                    ELSE /\ pc' = IF opts.regen_configs THEN "cc_regen"
                                  ELSE "cc_update"
                         /\ UNCHANGED <<exit, errmsg>>
       ELSE /\ pc' = "cc_create"
            /\ UNCHANGED <<calls, exit, errmsg>>
    /\ UNCHANGED <<fsVars, invVars, cwd_set, submitVars, shutdownVars>>

\* create_cwd_regen without the return of line 105: after the
\* configurations the command goes on to the update of line 109
create_cwd_regen_fallthrough ==
    /\ pc = "cc_regen"
    /\ Log("create_configurations", "", 0)
    /\ \/ /\ create_configurations
          /\ IF opts.update_directories
             THEN /\ pc' = "cc_update"
                  /\ UNCHANGED <<exit, errmsg>>
             ELSE Return
       \/ /\ exit_error("Failure during configuration generation")
          /\ UNCHANGED cwdMissing
    /\ UNCHANGED <<cwdState, monitor, invVars, cwd_set, submitVars,
                   shutdownVars>>

\* main.py 101-107: create_configurations returns or raises StartupError
create_cwd_regen ==
    /\ pc = "cc_regen"
    /\ Log("create_configurations", "", 0)
    /\ \/ /\ create_configurations
          /\ Return
       \/ /\ exit_error("Failure during configuration generation")
          /\ UNCHANGED cwdMissing
    /\ UNCHANGED <<cwdState, monitor, invVars, cwd_set, submitVars,
                   shutdownVars>>

\* create_cwd_update without the return of line 113: after the update the
\* command goes on to line 117
create_cwd_update_fallthrough ==
    /\ pc = "cc_update"
    /\ Log("cuckoocwd.update_missing", "", 0)
    /\ \/ /\ update_missing
          /\ pc' = "cc_create"
          /\ UNCHANGED <<exit, errmsg>>
       \/ /\ exit_error("Failed during directory updating")
          /\ UNCHANGED cwdMissing
    /\ UNCHANGED <<cwdState, monitor, invVars, cwd_set, submitVars,
                   shutdownVars>>

\* main.py 109-115: update_missing returns or raises InvalidCWDError
create_cwd_update ==
    /\ pc = "cc_update"
    /\ Log("cuckoocwd.update_missing", "", 0)
    /\ \/ /\ update_missing
          /\ Return
       \/ /\ exit_error("Failed during directory updating")
          /\ UNCHANGED cwdMissing
    /\ UNCHANGED <<cwdState, monitor, invVars, cwd_set, submitVars,
                   shutdownVars>>

\* main.py 117-118: the directory is created and made the current one
create_cwd_create ==
    /\ pc = "cc_create"
    /\ calls' = calls \o <<Call("cuckoocwd.create", "cwd", 0),
                           Call("cuckoocwd.set", "cwd", 0)>>
    /\ create
    /\ cwd_set' = TRUE
    /\ pc' = "cc_configs"
    /\ UNCHANGED <<monitor, invVars, submitVars, shutdownVars, exit, errmsg>>

\* main.py 119-123
create_cwd_configs ==
    /\ pc = "cc_configs"
    /\ Log("create_configurations", "", 0)
    /\ \/ /\ create_configurations
          /\ Return
       \/ /\ exit_error("Failure during configuration generation")
          /\ UNCHANGED cwdMissing
    /\ UNCHANGED <<cwdState, monitor, invVars, cwd_set, submitVars,
                   shutdownVars>>

-----------------------------------------------------------------------------
\* submit

\* main.py 210-213: settings_maker.set_machinesdump_path returns or raises
\* SubmissionError
submission_machinesdump ==
    /\ pc = "submission"
    /\ Log("set_machinesdump_path", "", 0)
    /\ \/ /\ pc' = "sub_settings"
          /\ UNCHANGED <<exit, errmsg>>
       \/ exit_error("Submission failed")
    /\ UNCHANGED <<fsVars, invVars, cwd_set, submitVars, shutdownVars>>

\* submission_settings with the SubmissionError of the settings helper only
\* caught: the command goes on to the generator without a settings value
submission_settings_go_on ==
    /\ pc = "sub_settings"
    /\ Log("make_settings", "", 0)
    /\ \/ /\ settings' = "built"
          /\ platforms' = [k \in DOMAIN platform |-> add_platform(platform[k])]
       \/ UNCHANGED <<settings, platforms>>
    /\ pc' = IF opts.url THEN "submit_urls" ELSE "submit_files"
    /\ UNCHANGED <<fsVars, invVars, cwd_set, idx, files, fidx, results,
                   warnings, shutdownVars, exit, errmsg>>

\* main.py 215-240: the settings are built, or a SubmissionError of the
\* settings helper ends the command; then the generator is chosen
submission_settings ==
    /\ pc = "sub_settings"
    /\ Log("make_settings", "", 0)
    /\ \/ /\ settings' = "built"
          /\ platforms' = [k \in DOMAIN platform |-> add_platform(platform[k])]
          /\ pc' = IF opts.url THEN "submit_urls" ELSE "submit_files"
          /\ UNCHANGED <<exit, errmsg>>
       \/ /\ exit_error("Submission failed")
          /\ UNCHANGED <<settings, platforms>>
    /\ UNCHANGED <<fsVars, invVars, cwd_set, idx, files, fidx, results,
                   warnings, shutdownVars>>

\* main.py 243-247: the loop body of submission consumes one yielded tuple
Consume(analysis_id, target, error, src) ==
    results' = Append(results,
        [analysis_id |-> analysis_id, target |-> target, error |-> error,
         src |-> src,
         printed |-> IF error # NoneVal THEN "print_error" ELSE "print_info"])

\* main.py 170-172: a raw target that does not exist yields an error tuple;
\* the generator then resumes at line 174
submit_files_check ==
    /\ pc = "submit_files"
    /\ idx <= Len(targets)
    /\ IF ~PathExists(targets[idx])
       THEN Consume(NoneVal, targets[idx], "No such file or directory", idx)
       ELSE UNCHANGED results
    /\ pc' = "submit_files_enum"
    /\ UNCHANGED <<fsVars, invVars, cwd_set, settings, platforms,
                   idx, files, fidx,
                   warnings, shutdownVars, calls, exit, errmsg>>

\* submit_files_enum assigning the enumeration to "files" instead of
\* extending it
submit_files_enum_assign ==
    /\ pc = "submit_files_enum"
    /\ Log("enumerate_files", targets[idx], idx)
    /\ LET found == enumerate_files(targets[idx])
       IN files' = [k \in DOMAIN found |-> [path |-> found[k], src |-> idx]]
    /\ idx' = idx + 1
    /\ pc' = "submit_files"
    /\ UNCHANGED <<fsVars, invVars, cwd_set, settings, platforms,
                   fidx, results,
                   warnings, shutdownVars, exit, errmsg>>

\* submit_files_enum putting the enumeration in front of "files"
submit_files_enum_prepend ==
    /\ pc = "submit_files_enum"
    /\ Log("enumerate_files", targets[idx], idx)
    /\ LET found == enumerate_files(targets[idx])
       IN files' = [k \in DOMAIN found |-> [path |-> found[k], src |-> idx]]
                   \o files
    /\ idx' = idx + 1
    /\ pc' = "submit_files"
    /\ UNCHANGED <<fsVars, invVars, cwd_set, settings, platforms, fidx,
                   results, warnings, shutdownVars, exit, errmsg>>

\* main.py 174: files.extend(enumerate_files(path))
submit_files_enum ==
    /\ pc = "submit_files_enum"
    /\ Log("enumerate_files", targets[idx], idx)
    /\ LET found == enumerate_files(targets[idx])
       IN files' = files \o [k \in DOMAIN found |->
                                [path |-> found[k], src |-> idx]]
    /\ idx' = idx + 1
    /\ pc' = "submit_files"
    /\ UNCHANGED <<fsVars, invVars, cwd_set, settings, platforms,
                   fidx, results,
                   warnings, shutdownVars, exit, errmsg>>

\* submit_files_resolved with the first loop left as soon as a file is known
submit_files_resolved_early ==
    /\ pc = "submit_files"
    /\ idx > Len(targets) \/ files # <<>>
    /\ pc' = "submit_files_submit"
    /\ UNCHANGED <<fsVars, invVars, cwd_set, submitVars, shutdownVars, calls,
                   exit, errmsg>>

\* main.py 170, 176: the first loop is over, the second one starts
submit_files_resolved ==
    /\ pc = "submit_files"
    /\ idx > Len(targets)
    /\ pc' = "submit_files_submit"
    /\ UNCHANGED <<fsVars, invVars, cwd_set, submitVars, shutdownVars, calls,
                   exit, errmsg>>

\* submit_files_submit without the try/except: a SubmissionError leaves the
\* generator and reaches the "finally" of submission
submit_files_submit_propagate ==
    /\ pc = "submit_files_submit"
    /\ fidx <= Len(files)
    /\ Log("submit.file", files[fidx].path, files[fidx].src)
    /\ \/ /\ Consume("analysis_id", files[fidx].path, NoneVal, files[fidx].src)
          /\ fidx' = fidx + 1
          /\ UNCHANGED pc
       \/ /\ pc' = "sub_notify"
          /\ UNCHANGED <<results, fidx>>
    /\ UNCHANGED <<fsVars, invVars, cwd_set, settings, platforms,
                   idx, files, warnings,
                   shutdownVars, exit, errmsg>>

\* submit_files_submit yielding no error in the except branch
submit_files_submit_drop_error ==
    /\ pc = "submit_files_submit"
    /\ fidx <= Len(files)
    /\ Log("submit.file", files[fidx].path, files[fidx].src)
    /\ \/ Consume("analysis_id", files[fidx].path, NoneVal, files[fidx].src)
       \/ Consume(NoneVal, files[fidx].path, NoneVal, files[fidx].src)
    /\ fidx' = fidx + 1
    /\ UNCHANGED <<fsVars, invVars, cwd_set, settings, platforms,
                   idx, files, warnings,
                   shutdownVars, pc, exit, errmsg>>

\* main.py 176-183: submit.file returns an analysis id or raises
\* SubmissionError; either way one tuple is yielded
submit_files_submit ==
    /\ pc = "submit_files_submit"
    /\ fidx <= Len(files)
    /\ Log("submit.file", files[fidx].path, files[fidx].src)
    /\ \/ Consume("analysis_id", files[fidx].path, NoneVal, files[fidx].src)
       \/ Consume(NoneVal, files[fidx].path, "SubmissionError",
                  files[fidx].src)
    /\ fidx' = fidx + 1
    /\ UNCHANGED <<fsVars, invVars, cwd_set, settings, platforms,
                   idx, files, warnings,
                   shutdownVars, pc, exit, errmsg>>

\* main.py 176, 248: the generator is exhausted
submit_files_exhausted ==
    /\ pc = "submit_files_submit"
    /\ fidx > Len(files)
    /\ pc' = "sub_notify"
    /\ UNCHANGED <<fsVars, invVars, cwd_set, submitVars, shutdownVars, calls,
                   exit, errmsg>>

\* main.py 187-192: submit.url returns an analysis id or raises
\* SubmissionError; either way one tuple is yielded
submit_urls_submit ==
    /\ pc = "submit_urls"
    /\ idx <= Len(targets)
    /\ Log("submit.url", targets[idx], idx)
    /\ \/ Consume("analysis_id", targets[idx], NoneVal, idx)
       \/ Consume(NoneVal, targets[idx], "SubmissionError", idx)
    /\ idx' = idx + 1
    /\ UNCHANGED <<fsVars, invVars, cwd_set, settings, platforms,
                   files, fidx, warnings,
                   shutdownVars, pc, exit, errmsg>>

\* main.py 187, 248: the generator is exhausted
submit_urls_exhausted ==
    /\ pc = "submit_urls"
    /\ idx > Len(targets)
    /\ pc' = "sub_notify"
    /\ UNCHANGED <<fsVars, invVars, cwd_set, submitVars, shutdownVars, calls,
                   exit, errmsg>>

\* submission_notify with the notification skipped when nothing was yielded
submission_notify_skip_empty ==
    /\ pc = "sub_notify"
    /\ IF results = <<>>
       THEN UNCHANGED <<calls, warnings>>
       ELSE /\ Log("submit.notify", "", 0)
            /\ \/ UNCHANGED warnings
               \/ warnings' = warnings + 1
    /\ Return
    /\ UNCHANGED <<fsVars, invVars, cwd_set, settings, platforms,
                   idx, files, fidx,
                   results, shutdownVars>>

\* submission_notify with a failed notification ending the command in error
submission_notify_escalate ==
    /\ pc = "sub_notify"
    /\ Log("submit.notify", "", 0)
    /\ \/ Return
       \/ exit_error("Submission failed")
    /\ UNCHANGED <<fsVars, invVars, cwd_set, settings, platforms,
                   idx, files, fidx,
                   results, warnings, shutdownVars>>

\* main.py 248-252: submit.notify returns, or raises SubmissionError, which
\* is printed as a warning
submission_notify ==
    /\ pc = "sub_notify"
    /\ Log("submit.notify", "", 0)
    /\ \/ UNCHANGED warnings
       \/ warnings' = warnings + 1
    /\ Return
    /\ UNCHANGED <<fsVars, invVars, cwd_set, settings, platforms,
                   idx, files, fidx,
                   results, shutdownVars>>

-----------------------------------------------------------------------------
Next ==
    \/ Invoke
    \/ main_exists
    \/ main_set
    \/ main_monitor
    \/ main_register
    \/ main_start
    \/ main_finally
    \/ importmode_register
    \/ importmode_start
    \/ importmode_finally
    \/ web
    \/ api
    \/ get_monitor
    \/ machine_add
    \/ create_cwd_check
    \/ create_cwd_regen
    \/ create_cwd_update
    \/ create_cwd_create
    \/ create_cwd_configs
    \/ submission_machinesdump
    \/ submission_settings
    \/ submit_files_check
    \/ submit_files_enum
    \/ submit_files_resolved
    \/ submit_files_submit
    \/ submit_files_exhausted
    \/ submit_urls_submit
    \/ submit_urls_exhausted
    \/ submission_notify

Spec == Init /\ [][Next]_vars

\* The submit command up to the built settings, with --platform options.
NextPlatform ==
    \/ InvokePlatform
    \/ main_exists
    \/ main_set
    \/ submission_machinesdump
    \/ submission_settings

SpecPlatform == Init /\ [][NextPlatform]_vars

-----------------------------------------------------------------------------
\* Properties

\* the results the generator yielded for raw target i
ResultsOf(i) == {k \in DOMAIN results : results[k].src = i}

\* the collaborator calls made for raw target i
CallsFor(i, ops) == {k \in DOMAIN calls : calls[k].op \in ops /\ calls[k].src = i}

\* submission has been entered by this process
SubmitEntered == "set_machinesdump_path" \in Ops

\* the generator chosen by submission has nothing left to yield
GeneratorExhausted ==
    /\ idx > Len(targets)
    /\ opts.url \/ fidx > Len(files)

\* C1: in _submit_files a raw target that does not exist gets exactly one
\* result, with the error "No such file or directory" and no analysis id,
\* and neither enumerate_files nor submit.file is called for it.
C1_MissingTargetNotResolved ==
    (cmd = "submit" /\ ~opts.url) =>
        \A i \in DOMAIN targets : ~PathExists(targets[i]) =>
            /\ CallsFor(i, {"enumerate_files", "submit.file"}) = {}
            /\ i < idx =>
                /\ Cardinality(ResultsOf(i)) = 1
                /\ \A k \in ResultsOf(i) :
                    /\ results[k].error = "No such file or directory"
                    /\ results[k].analysis_id = NoneVal

\* C2 as stated: every execution of the submit command, once over, has
\* called submit.notify exactly once, as its last collaborator call.
C2_NotifyOncePerExecution ==
    (cmd = "submit" /\ SubmitEntered /\ pc = "exited") =>
        /\ Count("submit.notify") = 1
        /\ calls[Len(calls)].op = "submit.notify"

\* C2 as amended: submit.notify is never called twice, it is called only
\* when the generator is exhausted and no call follows it, and every
\* execution of submit that built its settings, with 0, 1 or N targets and
\* whatever their results, ends having called it exactly once.
C2_NotifyOnceAfterDispatch ==
    cmd = "submit" =>
        /\ Count("submit.notify") <= 1
        /\ \A k \in DOMAIN calls : calls[k].op = "submit.notify" =>
            /\ k = Len(calls)
            /\ GeneratorExhausted
        /\ (pc = "exited" /\ settings = "built") =>
            Count("submit.notify") = 1

\* a submit of two units, one submitted and one failed, that has notified
C2_Witness ==
    /\ cmd = "submit"
    /\ pc = "exited"
    /\ Count("submit.notify") = 1
    /\ \E j, k \in DOMAIN results :
        /\ results[j].error = "SubmissionError"
        /\ results[k].analysis_id # NoneVal

\* the results that come from a submission call, in order
SubResults ==
    SelectSeq(results, LAMBDA r : r.error # "No such file or directory")

\* the resolved units, in order: the URLs, or the enumerated files
Units ==
    IF opts.url THEN targets
    ELSE [k \in DOMAIN files |-> files[k].path]

\* C3: a SubmissionError of submit.file or submit.url becomes the result of
\* its unit and never leaves the dispatcher: every submission call, failed
\* or not, has its result, the j-th result is the j-th unit's, the command
\* does not end in error, and at the end every unit has its result.
C3_Isolation ==
    (cmd = "submit" /\ settings = "built") =>
        /\ Len(SubResults) = Count("submit.file") + Count("submit.url")
        /\ \A j \in DOMAIN SubResults :
            /\ j \in DOMAIN Units
            /\ SubResults[j].target = Units[j]
        /\ exit # "error"
        /\ pc = "exited" => Len(SubResults) = Len(Units)

\* a unit failed and a later unit was still submitted
C3_Witness ==
    /\ cmd = "submit"
    /\ pc = "exited"
    /\ \E j, k \in DOMAIN SubResults :
        /\ j < k
        /\ SubResults[j].error = "SubmissionError"
        /\ SubResults[k].analysis_id # NoneVal

\* the number of results raw target i stands for: one, or for a directory
\* one per contained file
Expected(i) ==
    IF ~opts.url /\ PathKind(targets[i]) = "dir"
    THEN Len(DirFiles(targets[i]))
    ELSE 1

RECURSIVE SumExpected(_)
SumExpected(n) == IF n = 0 THEN 0 ELSE SumExpected(n - 1) + Expected(n)

\* C4: every raw target that does not expand (file, URL, missing path)
\* gets exactly one result, every directory one per contained file, and
\* the number of results is the sum of these; no target ever has more.
C4_ResultsPerTarget ==
    (cmd = "submit" /\ settings = "built") =>
        /\ \A k \in DOMAIN results : results[k].src \in DOMAIN targets
        /\ \A i \in DOMAIN targets : Cardinality(ResultsOf(i)) <= Expected(i)
        /\ pc = "exited" =>
            /\ \A i \in DOMAIN targets :
                Cardinality(ResultsOf(i)) = Expected(i)
            /\ Len(results) = SumExpected(Len(targets))

\* a file target, then a directory of two files: three results
C4_Witness ==
    /\ cmd = "submit"
    /\ pc = "exited"
    /\ ~opts.url
    /\ Len(targets) = 2
    /\ PathKind(targets[1]) = "file"
    /\ Len(DirFiles(targets[2])) = 2
    /\ Len(results) = 3

\* the calls of createcwd that write to the working directory
WriteOps ==
    {"cuckoocwd.create", "create_configurations", "cuckoocwd.update_missing"}

\* C5: createcwd with --regen-configs or --update-directories on an
\* existing directory that is not a valid working directory ends in error
\* and calls none of create, create_configurations, update_missing.
C5_RepairOnInvalidWritesNothing ==
    (/\ cmd = "createcwd"
     /\ opts.regen_configs \/ opts.update_directories
     /\ cwd0 = "Invalid") =>
        /\ Ops \cap WriteOps = {}
        /\ cwdState = "Invalid"
        /\ pc = "exited" => exit = "error"

\* the repair request was stopped by create_cwd's own validity test
C5_Witness ==
    /\ cmd = "createcwd"
    /\ opts.regen_configs
    /\ cwd0 = "Invalid"
    /\ pc = "exited"
    /\ errmsg = "not a valid Cuckoo CWD"

\* C6: createcwd with no repair flag on an existing directory writes
\* nothing and ends in error; when the previous invocation was a createcwd
\* with no repair flag that created the directory, the error is the
\* "already exists" one.
C6_SecondCreateFails ==
    (/\ cmd = "createcwd"
     /\ ~opts.regen_configs
     /\ ~opts.update_directories) =>
        /\ cwd0 # "Nonexistent" =>
            /\ Ops \cap WriteOps = {}
            /\ cwdState = cwd0
            /\ pc = "exited" => exit = "error"
        /\ (/\ prev.cmd = "createcwd"
            /\ ~prev.repair
            /\ prev.created
            /\ pc = "exited") =>
                /\ exit = "error"
                /\ errmsg = "already exists"
                /\ Ops \cap WriteOps = {}

\* the second of two createcwd runs has failed
C6_Witness ==
    /\ cmd = "createcwd"
    /\ ~opts.regen_configs
    /\ ~opts.update_directories
    /\ prev.cmd = "createcwd"
    /\ ~prev.repair
    /\ prev.created
    /\ pc = "exited"
    /\ errmsg = "already exists"

StartOps == {"start_cuckoo", "start_cuckoo_controller", "start_importmode"}

\* how many times the shutdown action m has run
TimesRan(m) == Cardinality({k \in DOMAIN shutdown_ran : shutdown_ran[k] = m})

\* C7: in the default command and in importmode the shutdown action is
\* registered before the subsystem entry point is called, no registered
\* action runs twice, and when the process is over every registered action
\* has run exactly once, after a normal return as after a StartupError.
C7_ShutdownRunsOnce ==
    cmd \in {"", "importmode"} =>
        /\ \A k \in DOMAIN calls : calls[k].op \in StartOps =>
            \E j \in 1..(k - 1) : calls[j].op = "register_shutdown"
        /\ \A j \in DOMAIN registered : TimesRan(registered[j]) <= 1
        /\ pc = "exited" =>
            /\ \A j \in DOMAIN registered : TimesRan(registered[j]) = 1
            /\ Ops \cap StartOps # {} =>
                /\ registered # <<>>
                /\ Count("call_registered_shutdowns") = 1

\* the subsystem raised StartupError and the shutdown action has run
C7_Witness ==
    /\ cmd = ""
    /\ pc = "exited"
    /\ exit = "error"
    /\ errmsg = "Failure during Cuckoo startup"
    /\ shutdown_ran = <<"_stopmsg">>

\* the calls made by the subsystems and the subcommands other than createcwd
SubsystemOps ==
    StartOps \cup
    {"register_shutdown", "init_web", "start_web", "init_api", "start_api",
     "get_monitor", "unpack_monitor_components", "add_machine",
     "set_machinesdump_path", "make_settings", "enumerate_files",
     "submit.file", "submit.url", "submit.notify"}

\* a subsystem or a subcommand has been entered
Entered ==
    \/ pc \in {"get_monitor", "machine_add", "submission", "web", "api",
               "importmode", "main_register", "main_start"}
    \/ Ops \cap SubsystemOps # {}

\* C8: apart from createcwd nothing is entered unless the working directory
\* existed and cuckoocwd.set accepted it; when it did not exist or set
\* rejected it, the process ends in error with nothing entered.
C8_ValidCwdBeforeSubsystem ==
    (cmd # "createcwd" /\ pc # "shell") =>
        /\ Entered => (cwd0 # "Nonexistent" /\ cwd_set)
        /\ (pc = "exited" /\ (cwd0 = "Nonexistent" \/ ~cwd_set)) =>
            /\ exit = "error"
            /\ ~Entered

\* a submit on an invalid working directory was stopped by main
C8_Witness ==
    /\ cmd = "submit"
    /\ cwd0 = "Invalid"
    /\ pc = "exited"
    /\ errmsg = "Invalid Cuckoo working directory"

\* C9: every result carries exactly one of an analysis id and an error,
\* and the consumer reports it as an error exactly when it has the error.
C9_IdXorError ==
    \A k \in DOMAIN results :
        /\ (results[k].analysis_id # NoneVal) # (results[k].error # NoneVal)
        /\ (results[k].printed = "print_error") <=>
                (results[k].analysis_id = NoneVal)

\* results of the three kinds have been emitted
C9_Witness ==
    /\ \E k \in DOMAIN results : results[k].error = "No such file or directory"
    /\ \E k \in DOMAIN results : results[k].error = "SubmissionError"
    /\ \E k \in DOMAIN results : results[k].analysis_id # NoneVal

\* C10: the notification step, whether submit.notify returns or raises,
\* changes no result, submits nothing, adds at most a warning and ends the
\* command with status 0.
C10_NotifyFailureIsWarning ==
    [][pc = "sub_notify" =>
        /\ results' = results
        /\ calls' = Append(calls, Call("submit.notify", "", 0))
        /\ warnings' \in {warnings, warnings + 1}
        /\ pc' = "exited"
        /\ exit' = "ok"]_vars

\* a notification failed after results were emitted: one warning, status 0
C10_Witness ==
    /\ cmd = "submit"
    /\ pc = "exited"
    /\ warnings = 1
    /\ results # <<>>
    /\ exit = "ok"

\* the messages exit_error reports a StartupError of the entry point with
StartupFailures ==
    {"Failure during Cuckoo startup", "Failure during import mode startup"}

\* C11: once start_cuckoo, start_cuckoo_controller or start_importmode has
\* raised StartupError, the failure is reported through exit_error and the
\* status is non-zero; when the process is over the registered shutdown
\* actions have run, in one call of call_registered_shutdowns.
C11_StartupFailureExitsNonZero ==
    \A k \in DOMAIN calls :
        (calls[k].op \in StartOps /\ calls[k].arg = "StartupError") =>
            /\ exit = "error"
            /\ errmsg \in StartupFailures
            /\ pc \in {"main_finally", "importmode_finally", "exited"}
            /\ pc = "exited" =>
                /\ registered # <<>>
                /\ shutdown_ran = registered
                /\ Count("call_registered_shutdowns") = 1

\* start_importmode raised and the process is over
C11_Witness ==
    /\ cmd = "importmode"
    /\ pc = "exited"
    /\ \E k \in DOMAIN calls :
        calls[k].op = "start_importmode" /\ calls[k].arg = "StartupError"
    /\ exit = "error"
    /\ shutdown_ran = <<"_stopmsg">>

\* C12: the default command without the monitor and stager binaries ends
\* in error with no shutdown action registered and neither start_cuckoo
\* nor start_cuckoo_controller called.
C12_NoMonitorNoStart ==
    (cmd = "" /\ pc # "shell" /\ ~monitor) =>
        /\ registered = <<>>
        /\ Ops \cap (StartOps \cup {"register_shutdown",
                                    "call_registered_shutdowns"}) = {}
        /\ pc \notin {"main_register", "main_start", "main_finally"}
        /\ pc = "exited" => exit = "error"

\* the default command was stopped by the monitor test
C12_Witness ==
    /\ cmd = ""
    /\ ~monitor
    /\ cwd_set
    /\ pc = "exited"
    /\ errmsg = "No monitor and stager binaries"

\* C13: the settings are built with one platform entry per --platform
\* token, in the order given, duplicates kept.  A token without a comma
\* gives the platform alone; a token with a comma gives the part before
\* the first comma as platform and all the rest, further commas included,
\* as os_version.  "windows,10" and "linux" give (windows, 10), (linux).
C13_PlatformEntries ==
    settings = "built" =>
        /\ Len(platforms) = Len(platform)
        /\ \A k \in DOMAIN platform :
            LET t == platform[k]
                e == platforms[k]
            IN IF \A i \in DOMAIN t : t[i] # ","
               THEN e.platform = t /\ e.os_version = <<>>
               ELSE /\ Len(e.os_version) = 1
                    /\ \A i \in DOMAIN e.platform : e.platform[i] # ","
                    /\ e.platform \o <<",">> \o e.os_version[1] = t
        /\ platform = <<Windows10, Linux>> =>
            platforms =
                <<[platform |-> <<"w", "i", "n", "d", "o", "w", "s">>,
                   os_version |-> << <<"1", "0">> >>],
                  [platform |-> <<"l", "i", "n", "u", "x">>,
                   os_version |-> <<>>]>>

\* the same token with two commas given twice: two equal entries, the
\* second comma kept in the os_version
C13_Witness ==
    /\ settings = "built"
    /\ platform = <<Windows10x, Windows10x>>
    /\ Len(platforms) = 2
    /\ platforms[1] = platforms[2]
    /\ platforms[1].os_version = << <<"1", "0", ",", "x">> >>

\* the entry points of the run modes
CoreOps == {"start_cuckoo", "start_cuckoo_controller"}

ModeOps == CoreOps \cup {"start_importmode", "start_web", "start_api"}

\* the number of calls of the operations in S
CountIn(S) == Cardinality({k \in DOMAIN calls : calls[k].op \in S})

\* C14: a process starts at most one run mode.  With a subcommand the core
\* is never started; with none, start_cuckoo is called only without
\* --distributed and start_cuckoo_controller only with it, never both, and
\* a default command that got past the checks of main has called exactly
\* one of them.
C14_OneRunMode ==
    /\ CountIn(ModeOps) <= 1
    /\ cmd # "" => Ops \cap CoreOps = {}
    /\ "start_cuckoo" \in Ops => (cmd = "" /\ ~opts.distributed)
    /\ "start_cuckoo_controller" \in Ops => (cmd = "" /\ opts.distributed)
    /\ (cmd = "" /\ pc \in {"main_finally", "exited"} /\ registered # <<>>) =>
        CountIn(CoreOps) = 1

\* the distributed core was started, and nothing else
C14_Witness ==
    /\ cmd = ""
    /\ opts.distributed
    /\ pc = "exited"
    /\ Count("start_cuckoo_controller") = 1
    /\ Count("start_cuckoo") = 0

\* what the dispatcher does: resolution, submission, results
DispatchOps == {"enumerate_files", "submit.file", "submit.url"}

DispatchPcs ==
    {"submit_files", "submit_files_enum", "submit_files_submit",
     "submit_urls", "sub_notify"}

\* C15: in submit nothing is resolved, submitted or yielded, and the
\* generator is not entered, unless make_settings was called before and the
\* settings are built; a submit that is over without built settings has
\* ended in error without notifying.
C15_SettingsBeforeDispatch ==
    cmd = "submit" =>
        /\ (\/ pc \in DispatchPcs
            \/ Ops \cap (DispatchOps \cup {"submit.notify"}) # {}
            \/ results # <<>>) =>
                /\ settings = "built"
                /\ "make_settings" \in Ops
        /\ \A k \in DOMAIN calls : calls[k].op \in DispatchOps =>
            \E j \in 1..(k - 1) : calls[j].op = "make_settings"
        /\ (pc = "exited" /\ settings = "unset") =>
            /\ exit = "error"
            /\ Ops \cap (DispatchOps \cup {"submit.notify"}) = {}
            /\ results = <<>>

\* make_settings raised: the command ended in error before the dispatcher
C15_Witness ==
    /\ cmd = "submit"
    /\ targets # <<>>
    /\ pc = "exited"
    /\ calls[Len(calls)].op = "make_settings"
    /\ settings = "unset"
    /\ errmsg = "Submission failed"

\* C16: the working directory state machine of createcwd.  A createcwd
\* that succeeds on a path that did not exist leaves a valid directory; a
\* valid directory stays valid whatever is run, and nothing is ever added
\* to what it lacks (the repairs only fill in); a --regen-configs step
\* that follows a successful --regen-configs run, and an
\* --update-directories step that follows a successful
\* --update-directories run, change nothing.
C16_CwdStateMachine ==
    /\ [](( /\ cmd = "createcwd"
            /\ cwd0 = "Nonexistent"
            /\ pc = "exited"
            /\ exit = "ok") => (cwdState = "Valid" /\ cwdMissing = {}))
    /\ [][/\ cwdState = "Valid" =>
                (cwdState' = "Valid" /\ cwdMissing' \subseteq cwdMissing)
          /\ (/\ pc = "cc_regen"
              /\ prev.cmd = "createcwd"
              /\ prev.regen
              /\ prev.ok) => UNCHANGED <<cwdState, cwdMissing>>
          /\ (/\ pc = "cc_update"
              /\ prev.cmd = "createcwd"
              /\ prev.repair
              /\ ~prev.regen
              /\ prev.ok) => UNCHANGED <<cwdState, cwdMissing>>]_vars

\* --update-directories has succeeded for the second time in a row on a
\* directory that still lacks its configuration files
C16_Witness ==
    /\ cmd = "createcwd"
    /\ opts.update_directories
    /\ ~opts.regen_configs
    /\ prev.cmd = "createcwd"
    /\ prev.repair
    /\ ~prev.regen
    /\ prev.ok
    /\ pc = "exited"
    /\ exit = "ok"
    /\ cwdState = "Valid"
    /\ cwdMissing = {"configs"}

\* the targets resolved into units, in the order of the raw targets and,
\* within a directory, in the order of the enumeration
RECURSIVE ResolvedFiles(_)
ResolvedFiles(n) ==
    IF n = 0 THEN <<>>
    ELSE ResolvedFiles(n - 1) \o
         (CASE PathKind(targets[n]) = "file" -> <<targets[n]>>
            [] PathKind(targets[n]) = "dir" -> DirFiles(targets[n])
            [] OTHER -> <<>>)

ResolvedOrder == IF opts.url THEN targets ELSE ResolvedFiles(Len(targets))

\* the submission calls made so far, in order
SubmitCalls ==
    SelectSeq(calls, LAMBDA c : c.op \in {"submit.file", "submit.url"})

\* C17: the dispatcher works one unit at a time and keeps the order: the
\* k-th submission call is for the k-th resolved unit, its result is the
\* k-th submission result, the result of every call made has been emitted
\* (so the next unit is submitted only after it), and at the end every
\* resolved unit has its result.
C17_SequentialInOrder ==
    (cmd = "submit" /\ settings = "built") =>
        /\ Len(SubResults) = Len(SubmitCalls)
        /\ Len(SubmitCalls) <= Len(ResolvedOrder)
        /\ \A k \in DOMAIN SubmitCalls :
            /\ SubmitCalls[k].arg = ResolvedOrder[k]
            /\ SubResults[k].target = ResolvedOrder[k]
        /\ pc = "exited" => Len(SubResults) = Len(ResolvedOrder)

\* a directory, then a file: three results in the order resolved
C17_Witness ==
    /\ cmd = "submit"
    /\ ~opts.url
    /\ pc = "exited"
    /\ Len(targets) = 2
    /\ PathKind(targets[1]) = "dir"
    /\ PathKind(targets[2]) = "file"
    /\ Len(SubResults) = 3
    /\ SubResults[3].target = targets[2]

\* C18: createcwd with both --regen-configs and --update-directories on a
\* valid working directory calls create_configurations once and neither
\* update_missing nor create.
C18_RegenShadowsUpdate ==
    (/\ cmd = "createcwd"
     /\ opts.regen_configs
     /\ opts.update_directories
     /\ cwd0 = "Valid") =>
        /\ "cuckoocwd.update_missing" \notin Ops
        /\ "cuckoocwd.create" \notin Ops
        /\ pc \notin {"cc_update", "cc_create", "cc_configs"}
        /\ Count("create_configurations") <= 1
        /\ pc = "exited" => Count("create_configurations") = 1

\* both flags given, the configurations regenerated, the command over
C18_Witness ==
    /\ cmd = "createcwd"
    /\ opts.regen_configs
    /\ opts.update_directories
    /\ cwd0 = "Valid"
    /\ pc = "exited"
    /\ exit = "ok"
    /\ Count("create_configurations") = 1

\* C19: cuckoocwd.create is called only in a process that found no
\* directory at the path; a createcwd on an existing directory never gets
\* to lines 117-123, whatever its flags and however its repair ends.
C19_CreateOnlyIfAbsent ==
    /\ "cuckoocwd.create" \in Ops => cwd0 = "Nonexistent"
    /\ (cmd = "createcwd" /\ cwd0 # "Nonexistent") =>
        pc \notin {"cc_create", "cc_configs"}

\* --update-directories succeeded on an existing directory: no create
C19_Witness ==
    /\ cmd = "createcwd"
    /\ opts.update_directories
    /\ cwd0 = "Valid"
    /\ pc = "exited"
    /\ exit = "ok"
    /\ "cuckoocwd.update_missing" \in Ops
    /\ "cuckoocwd.create" \notin Ops

\* C20: _submit_files has two phases: submit.file is called, and the second
\* loop entered, only when every raw target has been checked and
\* enumerated; so every missing-path result comes before every submission
\* result, and is there when the first submission is made.
C20_TwoPhase ==
    (cmd = "submit" /\ ~opts.url) =>
        /\ ("submit.file" \in Ops \/ pc = "submit_files_submit") =>
            /\ idx > Len(targets)
            /\ Count("enumerate_files") = Len(targets)
            /\ \A i \in DOMAIN targets :
                ~PathExists(targets[i]) => ResultsOf(i) # {}
        /\ \A j, k \in DOMAIN results :
            (/\ results[j].error = "No such file or directory"
             /\ results[k].error # "No such file or directory") => j < k

\* an existing file, then a missing path: the error comes first
C20_Witness ==
    /\ cmd = "submit"
    /\ ~opts.url
    /\ pc = "exited"
    /\ Len(targets) = 2
    /\ PathExists(targets[1])
    /\ ~PathExists(targets[2])
    /\ Len(results) = 2
    /\ results[1].target = targets[2]
    /\ results[2].target = targets[1]

====
